---------------------------- MODULE Spec2Model ----------------------------
(***************************************************************************)
(* Model of the stock/price synchronisation scripts seller.py (Ozon,       *)
(* "Seller") and market.py (Yandex Market, campaigns FBS and DBS).         *)
(*                                                                         *)
(* Python strings are sequences of one-character strings, so that str(),   *)
(* int(), str.split and re.sub are computed character by character.        *)
(* A value read from the supplier spreadsheet is a tagged Python value:    *)
(* an int cell, a str cell or None.                                        *)
(* The feed's column names "Код", "Количество", "Цена" are written code,   *)
(* quantity, price.                                                        *)
(***************************************************************************)
EXTENDS Integers, Sequences, FiniteSets, TLC

VARIABLES
    prog,            \* the entry point that is running
    pc,              \* position inside it
    watch_remnants,  \* the supplier feed (download_stock's result)
    shop,            \* the marketplaces' side: campaign -> catalog served in pages
    campaign,        \* the campaign the running code talks to
    page,            \* get_offer_ids: last_id (Seller) / page (Market)
    product_list,    \* get_offer_ids: the accumulated products
    offer_ids,       \* the caller's offer id list
    stocks,          \* create_stocks' result
    prices,          \* create_prices' result
    todo,            \* list(divide(...)) not yet iterated
    log,             \* every HTTP request issued so far, in order
    arg,             \* argument of a function called on its own
    ret              \* its result

vars == <<prog, pc, watch_remnants, shop, campaign, page, product_list,
          offer_ids, stocks, prices, todo, log, arg, ret>>

---------------------------------------------------------------------------
(* Bounds of the model *)

MaxFeed == 2
MaxUniverse == 2
MaxPriceLen == 3
MaxLst == 4
MaxN == 3
MaxCatalog == 3
MaxPageSize == 2
MaxPages == 3
MaxPageItems == 1
MaxRunFeed == 2
MaxRunCatalog == 2
RunPageSize == 1
\* the chunk sizes of the main programs, scaled down from 100 (seller.py
\* line 305), 900 (seller.py line 309) and 2000 (market.py lines 271, 280)
SellerStockBatch == 1
SellerPriceBatch == 1
MarketStockBatch == 1
\* the chunk sizes of upload_prices, scaled down from 1000 (seller.py line
\* 263) and 500 (market.py line 227)
SellerUploadBatch == 1
MarketPriceBatch == 1
\* no run issues this many requests: the guard that keeps the log finite
MaxRequests == 14

---------------------------------------------------------------------------
(* Python values *)

PyInt(n) == [t |-> "int", i |-> n, s |-> <<>>]
PyStr(x) == [t |-> "str", i |-> 0, s |-> x]
PyNone == [t |-> "none", i |-> 0, s |-> <<>>]

Digits == <<"0", "1", "2", "3", "4", "5", "6", "7", "8", "9">>

IsDigit(c) == \E d \in 1..10 : Digits[d] = c

DigitVal(c) == (CHOOSE d \in 1..10 : Digits[d] = c) - 1

RECURSIVE DecimalOf(_)
DecimalOf(n) ==
    IF n < 10 THEN <<Digits[n + 1]>>
    ELSE DecimalOf(n \div 10) \o <<Digits[(n % 10) + 1]>>

\* str(v)
str(v) ==
    CASE v.t = "int" -> (IF v.i < 0 THEN <<"-">> \o DecimalOf(-v.i) ELSE DecimalOf(v.i))
      [] v.t = "str" -> v.s
      [] OTHER -> <<"N", "o", "n", "e">>

RECURSIVE ValueOfDigits(_)
ValueOfDigits(s) ==
    IF s = <<>> THEN 0
    ELSE 10 * ValueOfDigits(SubSeq(s, 1, Len(s) - 1)) + DigitVal(s[Len(s)])

\* int(v) raises ValueError / TypeError exactly when IntRaises(v)
IntRaises(v) ==
    CASE v.t = "int" -> FALSE
      [] v.t = "str" -> v.s = <<>> \/ \E k \in 1..Len(v.s) : ~IsDigit(v.s[k])
      [] OTHER -> TRUE

int(v) == IF v.t = "int" THEN v.i ELSE ValueOfDigits(v.s)

\* x in lst
In(x, lst) == \E k \in 1..Len(lst) : lst[k] = x

\* a remove that is forgotten: the list stays as it was
remove_forgotten(lst, x) == lst

\* lst.remove(x): the first occurrence goes
remove(lst, x) ==
    LET k == CHOOSE j \in 1..Len(lst) : lst[j] = x /\ \A h \in 1..(j - 1) : lst[h] # x
    IN  SubSeq(lst, 1, k - 1) \o SubSeq(lst, k + 1, Len(lst))

---------------------------------------------------------------------------
(* seller.py: price_conversion, divide *)

\* the price taken whole, fraction included
SplitHead_whole(price) == price

\* price.split(".")[0]
RECURSIVE SplitHead(_)
SplitHead(price) ==
    IF price = <<>> \/ Head(price) = "." THEN <<>>
    ELSE <<Head(price)>> \o SplitHead(Tail(price))

\* re.sub("[^0-9]", "", text)
RECURSIVE SubNonDigits(_)
SubNonDigits(text) ==
    IF text = <<>> THEN <<>>
    ELSE (IF IsDigit(Head(text)) THEN <<Head(text)>> ELSE <<>>) \o SubNonDigits(Tail(text))

price_conversion(price) == SubNonDigits(SplitHead(price))

\* a range that stops before a last, shorter chunk
Range_full_only(len, n) == {i \in 0..len : i + n <= len /\ i % n = 0}

\* range(0, len(lst), n), n > 0
Range(len, n) == {i \in 0..len : i < len /\ i % n = 0}

\* lst[i : i + n] for 0 <= i <= len(lst), n > 0
Slice(lst, i, n) ==
    SubSeq(lst, i + 1, IF i + n < Len(lst) THEN i + n ELSE Len(lst))

\* list(divide(lst, n)): the chunks in the order the generator yields them
divide(lst, n) ==
    [j \in 1..Cardinality(Range(Len(lst), n)) |-> Slice(lst, (j - 1) * n, n)]

---------------------------------------------------------------------------
(* create_stocks: the quantity policy and the matching loop *)

\* seller.py lines 174-180: the stock of a matched record; int() may raise
seller_stock(watch) ==
    LET count == str(watch.quantity)
    IN  IF count = <<">", "1", "0">> THEN 100
        ELSE IF count = <<"1">> THEN 0
        ELSE int(watch.quantity)

seller_stock_raises(watch) ==
    LET count == str(watch.quantity)
    IN  count # <<">", "1", "0">> /\ count # <<"1">> /\ IntRaises(watch.quantity)

\* the policy without its "1" branch
market_stock_one_kept(watch) ==
    LET count == str(watch.quantity)
    IN  IF count = <<">", "1", "0">> THEN 100 ELSE int(watch.quantity)

\* market.py lines 141-147
market_stock(watch) ==
    LET count == str(watch.quantity)
    IN  IF count = <<">", "1", "0">> THEN 100
        ELSE IF count = <<"1">> THEN 0
        ELSE int(watch.quantity)

market_stock_raises(watch) ==
    LET count == str(watch.quantity)
    IN  count # <<">", "1", "0">> /\ count # <<"1">> /\ IntRaises(watch.quantity)

\* seller.py lines 172-182: the loop over the feed from record k on; st holds
\* the stocks built so far, the caller's list as mutated so far, and the
\* exception that ended the loop, if any
RECURSIVE seller_match(_, _, _)
seller_match(feed, k, st) ==
    IF k > Len(feed) THEN st
    ELSE LET watch == feed[k]
             code == str(watch.code)
         IN  IF ~In(code, st.offer_ids) THEN seller_match(feed, k + 1, st)
             ELSE IF seller_stock_raises(watch) THEN [st EXCEPT !.exc = "ValueError"]
             ELSE seller_match(feed, k + 1,
                    [st EXCEPT !.stocks = Append(@, [offer_id |-> code,
                                                     stock |-> seller_stock(watch)]),
                               !.offer_ids = remove(@, code)])

\* the offers left over taken from the end of the list
seller_fill_reversed(ids) ==
    [j \in 1..Len(ids) |-> [offer_id |-> ids[Len(ids) + 1 - j], stock |-> 0]]

\* seller.py lines 184-185
seller_fill(ids) == [j \in 1..Len(ids) |-> [offer_id |-> ids[j], stock |-> 0]]

\* seller.py create_stocks: [stocks: the returned list, offer_ids: the caller's
\* list after the call, exc: the exception raised ("" when it returns)]
seller_create_stocks(feed, ids) ==
    LET st == seller_match(feed, 1, [stocks |-> <<>>, offer_ids |-> ids, exc |-> ""])
    IN  IF st.exc # "" THEN st
        ELSE [st EXCEPT !.stocks = @ \o seller_fill(st.offer_ids)]

\* market.py lines 148-160 and 164-176: one entry of the payload; updatedAt is
\* the call's timestamp, the same in every entry of a call
market_sku(sku, warehouse_id, count) ==
    [sku |-> sku, warehouseId |-> warehouse_id,
     items |-> <<[count |-> count, type |-> "FIT", updatedAt |-> "date"]>>]

\* market.py lines 139-161
RECURSIVE market_match(_, _, _, _)
market_match(feed, k, warehouse_id, st) ==
    IF k > Len(feed) THEN st
    ELSE LET watch == feed[k]
             code == str(watch.code)
         IN  IF ~In(code, st.offer_ids) THEN market_match(feed, k + 1, warehouse_id, st)
             ELSE IF market_stock_raises(watch) THEN [st EXCEPT !.exc = "ValueError"]
             ELSE market_match(feed, k + 1, warehouse_id,
                    [st EXCEPT !.stocks = Append(@, market_sku(code, warehouse_id,
                                                              market_stock(watch))),
                               !.offer_ids = remove(@, code)])

\* market.py lines 163-176
market_fill(ids, warehouse_id) ==
    [j \in 1..Len(ids) |-> market_sku(ids[j], warehouse_id, 0)]

\* market.py create_stocks
market_create_stocks(feed, ids, warehouse_id) ==
    LET st == market_match(feed, 1, warehouse_id,
                           [stocks |-> <<>>, offer_ids |-> ids, exc |-> ""])
    IN  IF st.exc # "" THEN st
        ELSE [st EXCEPT !.stocks = @ \o market_fill(st.offer_ids, warehouse_id)]

---------------------------------------------------------------------------
(* Inputs of the functions called on their own *)

SeqsUpTo(S, n) == UNION {[1..k -> S] : k \in 0..n}

Distinct(lst) == \A i, j \in 1..Len(lst) : lst[i] = lst[j] => i = j

Elems(lst) == {lst[k] : k \in 1..Len(lst)}

OfferIds == {<<"A">>, <<"B">>, <<"7">>}

\* the code cell of a feed row: text, or a number as read_excel delivers it
FeedCodes == {PyStr(<<"A">>), PyInt(7)}

\* the quantity cell: the two sentinels, exact counts, and an empty cell
Quantities ==
    {PyStr(<<">", "1", "0">>), PyStr(<<"1">>), PyInt(1), PyInt(0), PyInt(7), PyStr(<<>>)}

SamplePrice == <<"5", "'", "9", "9", "0", ".", "0", "0", " ", "r", "u", "b", ".">>

FeedRecords ==
    {[code |-> c, quantity |-> q, price |-> SamplePrice] : c \in FeedCodes, q \in Quantities}

NoShop == [c \in {} |-> <<>>]

Idle(p) ==
    /\ prog = p
    /\ pc = "call"
    /\ shop = NoShop
    /\ campaign = ""
    /\ page = PyNone
    /\ product_list = <<>>
    /\ stocks = <<>>
    /\ prices = <<>>
    /\ todo = <<>>
    /\ log = <<>>
    /\ ret = <<>>

---------------------------------------------------------------------------
(* create_stocks called on a feed and a universe *)

InitStocks ==
    /\ \E p \in {"seller.create_stocks", "market.create_stocks"} : Idle(p)
    /\ watch_remnants \in SeqsUpTo(FeedRecords, MaxFeed)
    /\ offer_ids \in SeqsUpTo(OfferIds, MaxUniverse)
    /\ arg = [watch_remnants |-> watch_remnants, offer_ids |-> offer_ids]

CallSellerCreateStocks ==
    /\ prog = "seller.create_stocks"
    /\ pc = "call"
    /\ LET r == seller_create_stocks(watch_remnants, offer_ids)
       IN  /\ stocks' = (IF r.exc = "" THEN r.stocks ELSE <<>>)
           /\ offer_ids' = r.offer_ids
           /\ ret' = r.exc
    /\ pc' = "return"
    /\ UNCHANGED <<prog, watch_remnants, shop, campaign, page, product_list,
                   prices, todo, log, arg>>

CallMarketCreateStocks ==
    /\ prog = "market.create_stocks"
    /\ pc = "call"
    /\ LET r == market_create_stocks(watch_remnants, offer_ids, "warehouse")
       IN  /\ stocks' = (IF r.exc = "" THEN r.stocks ELSE <<>>)
           /\ offer_ids' = r.offer_ids
           /\ ret' = r.exc
    /\ pc' = "return"
    /\ UNCHANGED <<prog, watch_remnants, shop, campaign, page, product_list,
                   prices, todo, log, arg>>

NextStocks == CallSellerCreateStocks \/ CallMarketCreateStocks

SpecStocks == InitStocks /\ [][NextStocks]_vars

---------------------------------------------------------------------------
(* price_conversion called on a price string *)

PriceChars == {"5", "9", "0", ".", "'", " "}

InitPrice ==
    /\ Idle("seller.price_conversion")
    /\ watch_remnants = <<>>
    /\ offer_ids = <<>>
    /\ arg \in SeqsUpTo(PriceChars, MaxPriceLen)
                 \cup {SamplePrice, <<"1", "2", "3", "4">>}

CallPriceConversion ==
    /\ prog = "seller.price_conversion"
    /\ pc = "call"
    /\ ret' = price_conversion(arg)
    /\ pc' = "return"
    /\ UNCHANGED <<prog, watch_remnants, shop, campaign, page, product_list,
                   offer_ids, stocks, prices, todo, log, arg>>

NextPrice == CallPriceConversion

SpecPrice == InitPrice /\ [][NextPrice]_vars

---------------------------------------------------------------------------
(* divide called on a list and a chunk size *)

Items == {"x", "y"}

InitDivide ==
    /\ Idle("seller.divide")
    /\ watch_remnants = <<>>
    /\ offer_ids = <<>>
    /\ arg \in [lst : SeqsUpTo(Items, MaxLst), n : 1..MaxN]

CallDivide ==
    /\ prog = "seller.divide"
    /\ pc = "call"
    /\ ret' = divide(arg.lst, arg.n)
    /\ pc' = "return"
    /\ UNCHANGED <<prog, watch_remnants, shop, campaign, page, product_list,
                   offer_ids, stocks, prices, todo, log, arg>>

NextDivide == CallDivide

SpecDivide == InitDivide /\ [][NextDivide]_vars

---------------------------------------------------------------------------
(* Properties of create_stocks *)

StockId(e) == IF "offer_id" \in DOMAIN e THEN e.offer_id ELSE e.sku

StockCount(e) == IF "stock" \in DOMAIN e THEN e.stock ELSE e.items[1].count

\* a quantity of the feed's data model: an exact non-negative integer or one
\* of the two sentinels
QuantityExpr(q) ==
    \/ q.t = "int" /\ q.i >= 0
    \/ q.t = "str" /\ q.s = <<">", "1", "0">>
    \/ q.t = "str" /\ q.s # <<>> /\ \A k \in 1..Len(q.s) : IsDigit(q.s[k])

WellFormed(feed) == \A k \in 1..Len(feed) : QuantityExpr(feed[k].quantity)

StocksReturned ==
    /\ prog \in {"seller.create_stocks", "market.create_stocks"}
    /\ pc = "return"

HasRecord(feed, u) == \E r \in 1..Len(feed) : str(feed[r].code) = u

\* C1: for a universe of distinct offer ids and any feed of well-formed
\* records, create_stocks (Seller and Market) returns exactly one entry per
\* universe member and no other entry; a member without a feed record gets
\* stock 0, and a record whose code is not in the universe yields no entry.
C1_OneEntryPerOffer ==
    (StocksReturned /\ Distinct(arg.offer_ids) /\ WellFormed(arg.watch_remnants)) =>
        /\ ret = ""
        /\ Len(stocks) = Len(arg.offer_ids)
        /\ \A u \in Elems(arg.offer_ids) :
              Cardinality({k \in 1..Len(stocks) : StockId(stocks[k]) = u}) = 1
        /\ \A k \in 1..Len(stocks) :
              /\ StockId(stocks[k]) \in Elems(arg.offer_ids)
              /\ ~HasRecord(arg.watch_remnants, StockId(stocks[k]))
                    => StockCount(stocks[k]) = 0

\* a call on a two-member universe whose feed repeats the code of one member
\* and has nothing for the other
C1_Witness ==
    /\ StocksReturned
    /\ ret = ""
    /\ Distinct(arg.offer_ids)
    /\ Len(arg.offer_ids) = 2
    /\ Len(arg.watch_remnants) = 2
    /\ WellFormed(arg.watch_remnants)
    /\ arg.watch_remnants[1].code = arg.watch_remnants[2].code
    /\ In(str(arg.watch_remnants[1].code), arg.offer_ids)
    /\ \E u \in Elems(arg.offer_ids) : ~HasRecord(arg.watch_remnants, u)
    /\ Len(stocks) = 2

\* the stock the quantity policy assigns, as the specification words it
PolicyStock(q) ==
    IF q = PyStr(<<">", "1", "0">>) THEN 100
    ELSE IF q = PyStr(<<"1">>) \/ q = PyInt(1) THEN 0
    ELSE IF q.t = "int" THEN q.i
    ELSE ValueOfDigits(q.s)

\* C9: on Seller and on Market alike, the entry of a listed offer matched to a
\* well-formed feed record carries stock 100 for ">10", 0 for "1" and the
\* integer itself otherwise, and no well-formed quantity makes the call fail.
C9_QuantityPolicy ==
    (StocksReturned /\ Distinct(arg.offer_ids) /\ WellFormed(arg.watch_remnants)) =>
        /\ ret = ""
        /\ \A r \in 1..Len(arg.watch_remnants) :
              LET watch == arg.watch_remnants[r]
                  first == \A h \in 1..(r - 1) : arg.watch_remnants[h].code # watch.code
              IN  (first /\ In(str(watch.code), arg.offer_ids)) =>
                      \E k \in 1..Len(stocks) :
                          /\ StockId(stocks[k]) = str(watch.code)
                          /\ StockCount(stocks[k]) = PolicyStock(watch.quantity)

\* Market matched ">10" and "1" for two listed offers
C9_Witness ==
    /\ prog = "market.create_stocks"
    /\ pc = "return"
    /\ ret = ""
    /\ Distinct(arg.offer_ids)
    /\ Len(arg.watch_remnants) = 2
    /\ arg.watch_remnants[1].quantity = PyStr(<<">", "1", "0">>)
    /\ str(arg.watch_remnants[2].quantity) = <<"1">>
    /\ arg.watch_remnants[1].code # arg.watch_remnants[2].code
    /\ \A r \in 1..2 : In(str(arg.watch_remnants[r].code), arg.offer_ids)
    /\ StockCount(stocks[1]) = 100
    /\ StockCount(stocks[2]) = 0

---------------------------------------------------------------------------
(* Properties of divide and price_conversion *)

RECURSIVE Concat(_)
Concat(chunks) ==
    IF chunks = <<>> THEN <<>> ELSE Head(chunks) \o Concat(Tail(chunks))

\* C8: the chunks of divide(lst, n), n > 0, concatenate to lst; every chunk
\* but the last has n elements, the last has between 1 and n, and the empty
\* list yields no chunk.
C8_DividePartitions ==
    (prog = "seller.divide" /\ pc = "return") =>
        /\ Concat(ret) = arg.lst
        /\ \A j \in 1..(Len(ret) - 1) : Len(ret[j]) = arg.n
        /\ Len(ret) > 0 => (Len(ret[Len(ret)]) >= 1 /\ Len(ret[Len(ret)]) <= arg.n)
        /\ arg.lst = <<>> => ret = <<>>

\* a list cut into full chunks and a shorter last one
C8_Witness ==
    /\ prog = "seller.divide"
    /\ pc = "return"
    /\ Len(ret) >= 2
    /\ Len(ret[Len(ret)]) < arg.n

FirstDot(text) ==
    IF \E k \in 1..Len(text) : text[k] = "."
    THEN CHOOSE k \in 1..Len(text) : text[k] = "." /\ \A h \in 1..(k - 1) : text[h] # "."
    ELSE Len(text) + 1

DigitPositions(text) ==
    {k \in 1..(FirstDot(text) - 1) :
        text[k] \in {"0", "1", "2", "3", "4", "5", "6", "7", "8", "9"}}

NthOf(positions, i) ==
    CHOOSE k \in positions : Cardinality({h \in positions : h <= k}) = i

\* C10: price_conversion returns exactly the digits standing before the first
\* "." of its input, in their order; "5'990.00 rub." gives "5990" and "1234"
\* gives "1234".
C10_DigitsBeforeDot ==
    (prog = "seller.price_conversion" /\ pc = "return") =>
        /\ Len(ret) = Cardinality(DigitPositions(arg))
        /\ \A i \in 1..Len(ret) : ret[i] = arg[NthOf(DigitPositions(arg), i)]
        /\ arg = SamplePrice => ret = <<"5", "9", "9", "0">>
        /\ arg = <<"1", "2", "3", "4">> => ret = <<"1", "2", "3", "4">>

\* a price with a separator before the point and digits after it
C10_Witness ==
    /\ prog = "seller.price_conversion"
    /\ pc = "return"
    /\ \E k \in 1..Len(arg) : k > FirstDot(arg) /\ IsDigit(arg[k])
    /\ \E k \in 1..Len(arg) : k < FirstDot(arg) /\ ~IsDigit(arg[k])
    /\ ret # <<>>

---------------------------------------------------------------------------
(* The marketplaces' catalog listings, as get_product_list sees them.      *)
(* shop[c].pages are the pages campaign c serves, shop[c].last is what it  *)
(* sends as the cursor after the last page.  The cursor that asks for the  *)
(* first page is "", the one for page k + 1 is the decimal string of k.    *)

Empty == PyStr(<<>>)

PageIndex(cursor) == IF cursor.s = <<>> THEN 1 ELSE ValueOfDigits(cursor.s) + 1

RECURSIVE TotalItems(_)
TotalItems(pages) ==
    IF pages = <<>> THEN 0 ELSE Len(Head(pages)) + TotalItems(Tail(pages))

\* seller.py get_product_list: response_object.get("result") of a request
\* that succeeds
seller_get_product_list(last_id, client_id) ==
    LET pages == shop[client_id].pages
        k == PageIndex(last_id)
    IN  IF k > Len(pages)
        THEN [items |-> <<>>, total |-> TotalItems(pages), last_id |-> Empty]
        ELSE [items |-> [j \in 1..Len(pages[k]) |-> [offer_id |-> pages[k][j]]],
              total |-> TotalItems(pages),
              last_id |-> PyStr(DecimalOf(k))]

\* market.py get_product_list
market_get_product_list(token, campaign_id) ==
    LET pages == shop[campaign_id].pages
        k == PageIndex(token)
    IN  IF k > Len(pages)
        THEN [offerMappingEntries |-> <<>>,
              paging |-> [nextPageToken |-> shop[campaign_id].last]]
        ELSE [offerMappingEntries |->
                  [j \in 1..Len(pages[k]) |-> [offer |-> [shopSku |-> pages[k][j]]]],
              paging |-> [nextPageToken |->
                  IF k < Len(pages) THEN PyStr(DecimalOf(k))
                  ELSE shop[campaign_id].last]]

\* the total compared with the page just read instead of the accumulated list
seller_pager_done_page(some_prod, products) == some_prod.total = Len(some_prod.items)

\* seller.py line 69: the loop of get_offer_ids ends
seller_pager_done(some_prod, products) == some_prod.total = Len(products)

\* market.py line 117: "not page" holds of None and of ""
market_pager_done(token) == token.t = "none" \/ (token.t = "str" /\ token.s = <<>>)

\* seller.py lines 202-213
seller_create_prices(feed, ids) ==
    LET Listed(watch) == In(str(watch.code), ids)
        kept == SelectSeq(feed, Listed)
    IN  [j \in 1..Len(kept) |->
            [auto_action_enabled |-> "UNKNOWN",
             currency_code |-> "RUB",
             offer_id |-> str(kept[j].code),
             old_price |-> <<"0">>,
             price |-> price_conversion(kept[j].price)]]

---------------------------------------------------------------------------
(* The main programs and get_offer_ids, one step per HTTP request *)

Request(c, kind, cursor, batch, ok) ==
    [campaign |-> c, kind |-> kind, cursor |-> cursor, batch |-> batch, ok |-> ok]

\* a handler that goes back to the statement that raised
seller_except_retry(at) == at

\* seller.py lines 311-316: every exception raised inside main's try ends
\* the run; a get_offer_ids called on its own lets it reach its caller
seller_except(at) == IF prog = "seller.main" THEN "done" ELSE "raised"

\* market.py lines 265 and 284-289: download_stock is called before the try
market_except(at) ==
    IF prog # "market.main" THEN "raised"
    ELSE IF at = "download_stock" THEN "crashed"
    ELSE "done"

Except(at) ==
    IF prog \in {"seller.main", "seller.get_offer_ids"} THEN seller_except(at)
    ELSE market_except(at)

IsSeller == prog \in {"seller.main", "seller.get_offer_ids"}

IsMarket == prog \in {"market.main", "market.get_offer_ids"}

\* where a for loop over the chunks goes: into its body, or past it
Loop(chunks, body, after) == IF chunks = <<>> THEN after ELSE body

\* seller.py lines 64-74: one turn of the loop whose request succeeds, and
\* the conversion to offer ids when the loop ends
SellerPage ==
    /\ IsSeller
    /\ pc = "get_offer_ids"
    /\ Len(log) < MaxRequests
    /\ LET some_prod == seller_get_product_list(page, campaign)
           products == product_list \o some_prod.items
       IN  /\ log' = Append(log, Request(campaign, "page", page, <<>>, TRUE))
           /\ product_list' = products
           /\ page' = some_prod.last_id
           /\ IF seller_pager_done(some_prod, products)
              THEN /\ offer_ids' = [j \in 1..Len(products) |-> products[j].offer_id]
                   /\ pc' = (IF prog = "seller.main" THEN "download_stock" ELSE "return")
              ELSE UNCHANGED <<offer_ids, pc>>
    /\ UNCHANGED <<prog, watch_remnants, shop, campaign, stocks, prices, todo, arg, ret>>

\* market.py lines 113-122
MarketPage ==
    /\ IsMarket
    /\ pc = "get_offer_ids"
    /\ Len(log) < MaxRequests
    /\ LET some_prod == market_get_product_list(page, campaign)
           products == product_list \o some_prod.offerMappingEntries
           token == some_prod.paging.nextPageToken
       IN  /\ log' = Append(log, Request(campaign, "page", page, <<>>, TRUE))
           /\ product_list' = products
           /\ page' = token
           /\ IF market_pager_done(token)
              THEN /\ offer_ids' = [j \in 1..Len(products) |-> products[j].offer.shopSku]
                   /\ pc' = (IF prog = "market.main" THEN "create_stocks" ELSE "return")
              ELSE UNCHANGED <<offer_ids, pc>>
    /\ UNCHANGED <<prog, watch_remnants, shop, campaign, stocks, prices, todo, arg, ret>>

\* seller.py line 302, market.py line 265: the feed arrives
DownloadStock ==
    /\ pc = "download_stock"
    /\ Len(log) < MaxRequests
    /\ log' = Append(log, Request("CASIO", "download", PyNone, <<>>, TRUE))
    /\ pc' = (IF prog = "seller.main" THEN "create_stocks" ELSE "get_offer_ids")
    /\ UNCHANGED <<prog, watch_remnants, shop, campaign, page, product_list,
                   offer_ids, stocks, prices, todo, arg, ret>>

\* response.raise_for_status() (or the request itself) raises in the request
\* the program is about to make
RequestFails ==
    /\ pc \in {"get_offer_ids", "download_stock", "update_stocks", "update_price"}
    /\ prog \in {"seller.main", "market.main"}
    /\ Len(log) < MaxRequests
    /\ log' = Append(log,
          CASE pc = "get_offer_ids" -> Request(campaign, "page", page, <<>>, FALSE)
            [] pc = "download_stock" -> Request("CASIO", "download", PyNone, <<>>, FALSE)
            [] pc = "update_stocks" -> Request(campaign, "stocks", PyNone, Head(todo), FALSE)
            [] pc = "update_price" -> Request(campaign, "prices", PyNone, Head(todo), FALSE))
    /\ pc' = Except(pc)
    /\ UNCHANGED <<prog, watch_remnants, shop, campaign, page, product_list,
                   offer_ids, stocks, prices, todo, arg, ret>>

\* seller.py lines 304-305: create_stocks, then list(divide(stocks, 100))
SellerCreateStocks ==
    /\ prog = "seller.main"
    /\ pc = "create_stocks"
    /\ LET r == seller_create_stocks(watch_remnants, offer_ids)
       IN  /\ offer_ids' = r.offer_ids
           /\ IF r.exc # ""
              THEN /\ pc' = Except(pc)
                   /\ UNCHANGED <<stocks, todo>>
              ELSE /\ stocks' = r.stocks
                   /\ todo' = divide(r.stocks, SellerStockBatch)
                   /\ pc' = Loop(todo', "update_stocks", "create_prices")
    /\ UNCHANGED <<prog, watch_remnants, shop, campaign, page, product_list,
                   prices, log, arg, ret>>

\* market.py lines 270-271 and 279-280
MarketCreateStocks ==
    /\ prog = "market.main"
    /\ pc = "create_stocks"
    /\ LET r == market_create_stocks(watch_remnants, offer_ids,
                    IF campaign = "FBS" THEN "warehouse_fbs_id" ELSE "warehouse_dbs_id")
       IN  /\ offer_ids' = r.offer_ids
           /\ IF r.exc # ""
              THEN /\ pc' = Except(pc)
                   /\ UNCHANGED <<stocks, todo>>
              ELSE /\ stocks' = r.stocks
                   /\ todo' = divide(r.stocks, MarketStockBatch)
                   /\ pc' = Loop(todo', "update_stocks", "upload_prices")
    /\ UNCHANGED <<prog, watch_remnants, shop, campaign, page, product_list,
                   prices, log, arg, ret>>

\* seller.py line 306, market.py lines 272 and 281: one chunk is submitted
UpdateStocks ==
    /\ pc = "update_stocks"
    /\ Len(log) < MaxRequests
    /\ log' = Append(log, Request(campaign, "stocks", PyNone, Head(todo), TRUE))
    /\ todo' = Tail(todo)
    /\ pc' = Loop(todo', "update_stocks",
                  IF prog = "seller.main" THEN "create_prices" ELSE "upload_prices")
    /\ UNCHANGED <<prog, watch_remnants, shop, campaign, page, product_list,
                   offer_ids, stocks, prices, arg, ret>>

\* seller.py lines 308-309: create_prices on the list create_stocks was given
SellerCreatePrices ==
    /\ prog = "seller.main"
    /\ pc = "create_prices"
    /\ prices' = seller_create_prices(watch_remnants, offer_ids)
    /\ todo' = divide(prices', SellerPriceBatch)
    /\ pc' = Loop(todo', "update_price", "done")
    /\ UNCHANGED <<prog, watch_remnants, shop, campaign, page, product_list,
                   offer_ids, stocks, log, arg, ret>>

\* seller.py line 310
UpdatePrice ==
    /\ prog = "seller.main"
    /\ pc = "update_price"
    /\ Len(log) < MaxRequests
    /\ log' = Append(log, Request(campaign, "prices", PyNone, Head(todo), TRUE))
    /\ todo' = Tail(todo)
    /\ pc' = Loop(todo', "update_price", "done")
    /\ UNCHANGED <<prog, watch_remnants, shop, campaign, page, product_list,
                   offer_ids, stocks, prices, arg, ret>>

\* market.py lines 274 and 283: upload_prices is an async def (line 213) and
\* main calls it without awaiting it, so the call builds a coroutine object
\* and runs none of its body; after FBS, main goes on to DBS (line 277)
MarketUploadPrices ==
    /\ prog = "market.main"
    /\ pc = "upload_prices"
    /\ IF campaign = "FBS"
       THEN /\ campaign' = "DBS"
            /\ page' = Empty
            /\ product_list' = <<>>
            /\ pc' = "get_offer_ids"
       ELSE /\ pc' = "done"
            /\ UNCHANGED <<campaign, page, product_list>>
    /\ UNCHANGED <<prog, watch_remnants, shop, offer_ids, stocks, prices, todo,
                   log, arg, ret>>

RunIds == {<<"A">>, <<"7">>}

RunRecords == {r \in FeedRecords : r.quantity \in {PyStr(<<">", "1", "0">>), PyInt(0)}}

\* what a listing may deliver: get_offer_ids keeps whatever the pages hold,
\* an identifier served twice included
RunCatalogs == SeqsUpTo(RunIds, MaxRunCatalog)

Listing(catalog, size, last) == [pages |-> divide(catalog, size), last |-> last]

InitMain ==
    /\ watch_remnants \in SeqsUpTo(RunRecords, MaxRunFeed)
    /\ \/ /\ prog = "seller.main"
          /\ pc = "get_offer_ids"
          /\ campaign = "OZON"
          /\ \E c \in RunCatalogs :
                shop = [x \in {"OZON"} |-> Listing(c, RunPageSize, Empty)]
       \/ /\ prog = "market.main"
          /\ pc = "download_stock"
          /\ campaign = "FBS"
          /\ \E f, d \in RunCatalogs :
                shop = [x \in {"FBS", "DBS"} |->
                           Listing(IF x = "FBS" THEN f ELSE d, RunPageSize, PyNone)]
    /\ page = Empty
    /\ product_list = <<>>
    /\ offer_ids = <<>>
    /\ stocks = <<>>
    /\ prices = <<>>
    /\ todo = <<>>
    /\ log = <<>>
    /\ arg = <<>>
    /\ ret = <<>>

Init == InitMain

Next ==
    \/ SellerPage
    \/ MarketPage
    \/ DownloadStock
    \/ RequestFails
    \/ SellerCreateStocks
    \/ MarketCreateStocks
    \/ UpdateStocks
    \/ SellerCreatePrices
    \/ UpdatePrice
    \/ MarketUploadPrices

Spec == Init /\ [][Next]_vars

---------------------------------------------------------------------------
(* get_offer_ids called on its own, against a listing that answers *)

PagerIds == {<<"A">>, <<"B">>}

CatalogIds == OfferIds \cup {<<"C">>}

InitPager(p, c) ==
    /\ prog = p
    /\ pc = "get_offer_ids"
    /\ campaign = c
    /\ watch_remnants = <<>>
    /\ page = Empty
    /\ product_list = <<>>
    /\ offer_ids = <<>>
    /\ stocks = <<>>
    /\ prices = <<>>
    /\ todo = <<>>
    /\ log = <<>>
    /\ arg = <<>>
    /\ ret = <<>>

\* Market: any pages, an identifier may come twice; the last page's cursor is
\* absent or empty
InitMarketPager ==
    /\ InitPager("market.get_offer_ids", "FBS")
    /\ \E pages \in SeqsUpTo(SeqsUpTo(PagerIds, MaxPageItems), MaxPages),
          last \in {Empty, PyNone} :
            shop = [x \in {"FBS"} |-> [pages |-> pages, last |-> last]]

SpecMarketPager == InitMarketPager /\ [][MarketPage]_vars

\* Seller: a finite catalog of distinct offers served page by page, the total
\* reported with every page
InitSellerPager ==
    /\ InitPager("seller.get_offer_ids", "OZON")
    /\ \E catalog \in {c \in SeqsUpTo(CatalogIds, MaxCatalog) : Distinct(c)},
          size \in 1..MaxPageSize :
            shop = [x \in {"OZON"} |-> Listing(catalog, size, Empty)]

\* the loop of get_offer_ids runs on its own: a turn that can be taken is taken
SpecSellerPager == InitSellerPager /\ [][SellerPage]_vars /\ WF_vars(SellerPage)

Served(c) == Concat(shop[c].pages)

\* C6: the Market pager starts from the empty cursor, asks for each page with
\* the cursor the previous page returned, stops at the first page whose next
\* cursor is empty or absent, and returns the union of the fetched pages'
\* offer ids, each exactly once.
C6_UnionEachOnce ==
    (prog = "market.get_offer_ids" /\ pc = "return") =>
        /\ log[1].cursor = Empty
        /\ \A i \in 2..Len(log) :
              log[i].cursor =
                  market_get_product_list(log[i - 1].cursor, "FBS").paging.nextPageToken
        /\ Elems(offer_ids) = Elems(Served("FBS"))
        /\ Distinct(offer_ids)

PagesBefore(i) == SubSeq(shop["OZON"].pages, 1, i)

SellerPagerSteps ==
    prog = "seller.get_offer_ids" =>
        /\ log # <<>> => log[1].cursor = Empty
        /\ \A i \in 2..Len(log) :
              log[i].cursor = seller_get_product_list(log[i - 1].cursor, "OZON").last_id
        /\ \A i \in 1..(Len(log) - 1) :
              TotalItems(PagesBefore(i)) # TotalItems(shop["OZON"].pages)
        /\ pc = "return" =>
              /\ Len(product_list) = TotalItems(shop["OZON"].pages)
              /\ offer_ids = Served("OZON")
        /\ pc \in {"get_offer_ids", "return"}

\* C7: against a listing that serves a finite catalog page by page and reports
\* the total with each page, the Seller pager terminates: it asks from the
\* empty cursor on, each time with the last_id of the previous page, until the
\* accumulated count equals the total, and returns the offer ids in page order.
C7_SellerPagerTerminates == <>(pc = "return") /\ []SellerPagerSteps

\* a catalog of more than one page has been read to its end
C7_Witness ==
    /\ prog = "seller.get_offer_ids"
    /\ pc = "return"
    /\ Len(log) >= 2
    /\ Len(offer_ids) = 3

---------------------------------------------------------------------------
(* Properties of the main programs *)

Failed(c) == \E i \in 1..Len(log) : log[i].campaign = c /\ ~log[i].ok

\* C2: in a Market run, a transport failure of an FBS request does not keep
\* the DBS campaign from being run: its catalog is still paged and, when its
\* own requests succeed, its stocks are submitted.
C2_DbsRunsAfterFbsFailure ==
    (prog = "market.main" /\ pc = "done" /\ Failed("FBS") /\ ~Failed("DBS")) =>
        /\ \E j \in 1..Len(log) : log[j].campaign = "DBS" /\ log[j].kind = "page"
        /\ \A u \in Elems(Served("DBS")) :
              \E j \in 1..Len(log) :
                  /\ log[j].campaign = "DBS"
                  /\ log[j].kind = "stocks"
                  /\ \E k \in 1..Len(log[j].batch) : StockId(log[j].batch[k]) = u

\* C3: when a run of main ends with every request having succeeded, each
\* campaign of the program has been sent, in some price batch, every offer of
\* its (duplicate-free) catalog that has a feed record.
C3_PricesPushed ==
    (/\ pc = "done"
     /\ \A i \in 1..Len(log) : log[i].ok
     /\ \A c \in DOMAIN shop : Distinct(Served(c))) =>
        \A c \in DOMAIN shop :
            \A u \in Elems(Served(c)) :
                HasRecord(watch_remnants, u) =>
                    \E i \in 1..Len(log) :
                        /\ log[i].campaign = c
                        /\ log[i].kind = "prices"
                        /\ \E k \in 1..Len(log[i].batch) : log[i].batch[k].offer_id = u

\* C4: create_stocks leaves the caller's universe list as it was, so that in
\* Seller's main the list handed to create_prices afterwards is still the
\* list fetched from the catalog.
C4_UniverseUnchanged ==
    (prog = "seller.main" /\ pc \in {"update_stocks", "create_prices"}) =>
        offer_ids = Served("OZON")

\* C5: once a request of a run has raised, no further request is issued for
\* that platform in the run (so the failed one is not issued again), and the
\* run has ended.
C5_FailureAborts ==
    \A i \in 1..Len(log) :
        ~log[i].ok =>
            /\ \A j \in (i + 1)..Len(log) : log[j].campaign # log[i].campaign
            /\ pc \in {"done", "crashed"}

\* a stock submission of Seller failed with a later chunk still to send
C5_Witness ==
    /\ prog = "seller.main"
    /\ pc = "done"
    /\ Len(log) >= 3
    /\ ~log[Len(log)].ok
    /\ log[Len(log)].kind = "stocks"
    /\ log[Len(log) - 1].kind = "stocks"
    /\ Len(todo) >= 1

\* the guard on the number of requests never holds a run back
RequestsWithinGuard == Len(log) < MaxRequests

---------------------------------------------------------------------------
(* The order of create_stocks' result *)

\* where an offer stands in the universe, and where its first record stands
\* in the feed
UniverseIndex(u) == CHOOSE k \in 1..Len(arg.offer_ids) : arg.offer_ids[k] = u

FirstRecord(u) ==
    CHOOSE r \in 1..Len(arg.watch_remnants) :
        /\ str(arg.watch_remnants[r].code) = u
        /\ \A h \in 1..(r - 1) : str(arg.watch_remnants[h].code) # u

Matched(k) == HasRecord(arg.watch_remnants, StockId(stocks[k]))

OrderedCall ==
    StocksReturned /\ ret = "" /\ Distinct(arg.offer_ids) /\ WellFormed(arg.watch_remnants)

\* the entries of offers with a feed record come first, those of offers
\* without one follow in universe order with stock 0
MatchedFirst ==
    /\ \A i, j \in 1..Len(stocks) : (i < j /\ Matched(j)) => Matched(i)
    /\ \A i, j \in 1..Len(stocks) :
          (i < j /\ ~Matched(i) /\ ~Matched(j)) =>
              UniverseIndex(StockId(stocks[i])) < UniverseIndex(StockId(stocks[j]))
    /\ \A i \in 1..Len(stocks) : ~Matched(i) => StockCount(stocks[i]) = 0

\* C11 as stated: the entries of the offers that have a feed record stand in
\* the order those offers have in the universe, whatever the feed's order,
\* and are followed by the zero-stock entries of the others in universe order.
C11_MatchedInUniverseOrder ==
    OrderedCall =>
        /\ MatchedFirst
        /\ \A i, j \in 1..Len(stocks) :
              (i < j /\ Matched(i) /\ Matched(j)) =>
                  UniverseIndex(StockId(stocks[i])) < UniverseIndex(StockId(stocks[j]))

\* C11 as amended: the entries of the offers that have a feed record stand in
\* the order of those offers' first records in the feed, and are followed by
\* the zero-stock entries of the others in universe order.
C11_MatchedInFeedOrder ==
    OrderedCall =>
        /\ MatchedFirst
        /\ \A i, j \in 1..Len(stocks) :
              (i < j /\ Matched(i) /\ Matched(j)) =>
                  FirstRecord(StockId(stocks[i])) < FirstRecord(StockId(stocks[j]))

\* two listed offers whose records come in the feed in the opposite order
C11_Witness ==
    /\ OrderedCall
    /\ Len(stocks) = 2
    /\ Matched(1)
    /\ Matched(2)
    /\ UniverseIndex(StockId(stocks[1])) = 2
    /\ FirstRecord(StockId(stocks[1])) = 1

---------------------------------------------------------------------------
(* create_prices and upload_prices *)

\* market.py line 201: int(price_conversion(...)) raises ValueError
market_price_raises(watch) == IntRaises(PyStr(price_conversion(watch.price)))

\* market.py lines 197-208
market_price(watch) ==
    [id |-> str(watch.code),
     price |-> [value |-> int(PyStr(price_conversion(watch.price))),
                currencyId |-> "RUR"]]

\* market.py lines 195-209: the loop from record k on
RECURSIVE market_prices_loop(_, _, _, _)
market_prices_loop(feed, ids, k, st) ==
    IF k > Len(feed) THEN st
    ELSE LET watch == feed[k]
         IN  IF ~In(str(watch.code), ids) THEN market_prices_loop(feed, ids, k + 1, st)
             ELSE IF market_price_raises(watch) THEN [st EXCEPT !.exc = "ValueError"]
             ELSE market_prices_loop(feed, ids, k + 1,
                    [st EXCEPT !.prices = Append(@, market_price(watch))])

\* market.py create_prices: [prices: the returned list, exc: the exception
\* raised ("" when it returns)]
market_create_prices(feed, ids) ==
    market_prices_loop(feed, ids, 1, [prices |-> <<>>, exc |-> ""])

\* the price cell: a formatted price, an empty cell, a dash for "no price"
FeedPrices == {SamplePrice, <<>>, <<"-">>}

PricedRecords ==
    {[code |-> c, quantity |-> PyInt(7), price |-> p] : c \in FeedCodes, p \in FeedPrices}

\* upload_prices after its get_offer_ids has returned offer_ids
InitUploadPrices ==
    /\ \/ prog = "seller.upload_prices" /\ campaign = "OZON"
       \/ prog = "market.upload_prices" /\ campaign = "FBS"
    /\ pc = "create_prices"
    /\ watch_remnants \in SeqsUpTo(PricedRecords, MaxFeed)
    /\ offer_ids \in SeqsUpTo(OfferIds, MaxUniverse)
    /\ shop = NoShop
    /\ page = PyNone
    /\ product_list = <<>>
    /\ stocks = <<>>
    /\ prices = <<>>
    /\ todo = <<>>
    /\ log = <<>>
    /\ arg = <<>>
    /\ ret = <<>>

\* seller.py lines 262-263
SellerUploadCreatePrices ==
    /\ prog = "seller.upload_prices"
    /\ pc = "create_prices"
    /\ prices' = seller_create_prices(watch_remnants, offer_ids)
    /\ todo' = divide(prices', SellerUploadBatch)
    /\ pc' = Loop(todo', "update_price", "return")
    /\ UNCHANGED <<prog, watch_remnants, shop, campaign, page, product_list,
                   offer_ids, stocks, log, arg, ret>>

\* market.py lines 226-227; an exception of create_prices leaves upload_prices
MarketUploadCreatePrices ==
    /\ prog = "market.upload_prices"
    /\ pc = "create_prices"
    /\ LET r == market_create_prices(watch_remnants, offer_ids)
       IN  IF r.exc # ""
           THEN /\ pc' = "raised"
                /\ ret' = r.exc
                /\ UNCHANGED <<prices, todo>>
           ELSE /\ prices' = r.prices
                /\ todo' = divide(r.prices, MarketPriceBatch)
                /\ pc' = Loop(todo', "update_price", "return")
                /\ UNCHANGED ret
    /\ UNCHANGED <<prog, watch_remnants, shop, campaign, page, product_list,
                   offer_ids, stocks, log, arg>>

\* seller.py line 264, market.py line 228: one chunk goes to update_price,
\* whose request succeeds or raises
UploadUpdatePrice ==
    /\ prog \in {"seller.upload_prices", "market.upload_prices"}
    /\ pc = "update_price"
    /\ Len(log) < MaxRequests
    /\ \/ /\ log' = Append(log, Request(campaign, "prices", PyNone, Head(todo), TRUE))
          /\ todo' = Tail(todo)
          /\ pc' = Loop(todo', "update_price", "return")
          /\ UNCHANGED ret
       \/ /\ log' = Append(log, Request(campaign, "prices", PyNone, Head(todo), FALSE))
          /\ pc' = "raised"
          /\ ret' = "HTTPError"
          /\ UNCHANGED todo
    /\ UNCHANGED <<prog, watch_remnants, shop, campaign, page, product_list,
                   offer_ids, stocks, prices, arg>>

NextUploadPrices ==
    \/ SellerUploadCreatePrices
    \/ MarketUploadCreatePrices
    \/ UploadUpdatePrice

SpecUploadPrices == InitUploadPrices /\ [][NextUploadPrices]_vars

PriceId(e) == IF "offer_id" \in DOMAIN e THEN e.offer_id ELSE e.id

\* a Seller payload carries the normalized price as text, a Market payload as
\* an integer
EmptyPrice(e) == IF "offer_id" \in DOMAIN e THEN e.price = <<>> ELSE FALSE

\* C12: no payload with an empty price is passed to update_price, and when a
\* listed offer's price normalizes to the empty string the price entries of the
\* other listed offers are still produced and sent.
C12_EmptyPriceOmitted ==
    /\ \A i \in 1..Len(log) :
          log[i].kind = "prices" =>
              \A k \in 1..Len(log[i].batch) : ~EmptyPrice(log[i].batch[k])
    /\ (/\ prog \in {"seller.upload_prices", "market.upload_prices"}
        /\ pc \in {"return", "raised"}
        /\ \A i \in 1..Len(log) : log[i].ok) =>
          \A r \in 1..Len(watch_remnants) :
              (/\ In(str(watch_remnants[r].code), offer_ids)
               /\ price_conversion(watch_remnants[r].price) # <<>>) =>
                  \E i \in 1..Len(log) :
                      \E k \in 1..Len(log[i].batch) :
                          PriceId(log[i].batch[k]) = str(watch_remnants[r].code)

=============================================================================
